---- MODULE Spec2Model ----
(***************************************************************************)
(* The transaction store of the curriculum's "Transaction Manager"         *)
(* project: class Transaction, class Mempool and class TransactionManager  *)
(* of src/003-advanced/projects/03_transaction_manager.md.                 *)
(*                                                                         *)
(* Every Mempool method takes std::lock_guard on mutex_ for its whole      *)
(* body, so each call is one atomic step.  size_t arithmetic is modelled   *)
(* with unbounded naturals: within the bounds below no sum comes near      *)
(* 2^64.                                                                   *)
(***************************************************************************)
EXTENDS Integers, Sequences, FiniteSets, TLC

\* Longest payload (std::vector<uint8_t>) handed to the store.
MaxLen == 2

\* Number of mutating calls (add / remove) made in one behaviour.
MaxCalls == 3

\* The capacity C that the capacity claims (C7, C8) speak of.  The Mempool
\* class has no such field; the value is only read by the claims' formulas.
Capacity == 3

\* A capacity smaller than some single payload, for the oversized-insert
\* claim (C10).  Read only by that claim's formula.
TinyCapacity == 1

\* Byte values used in payloads.
Bytes == {0, 1}

RECURSIVE BytesOfLen(_)
BytesOfLen(n) ==
    IF n = 0 THEN {<<>>}
    ELSE {Append(s, b) : s \in BytesOfLen(n - 1), b \in Bytes}

\* The payloads a caller may pass: every byte vector of length 0..MaxLen.
Payloads == UNION {BytesOfLen(n) : n \in 0..MaxLen}

\* Transaction::calculateTxid: the hex SHA-256 digest of data_.  The digest
\* is modelled as a collision-free function of the bytes (the bytes read as
\* a base-2 numeral behind a leading 1), so distinct payloads get distinct
\* ids and equal payloads get the same id.
RECURSIVE calculateTxid(_)
calculateTxid(data) ==
    IF data = <<>> THEN 1
    ELSE 2 * calculateTxid(SubSeq(data, 1, Len(data) - 1)) + data[Len(data)]

\* Transaction::Transaction(std::vector<uint8_t> data): moves the data in
\* and computes the id.  It performs no validation and never throws on an
\* empty vector.
Transaction(data) == [data_ |-> data, txid_ |-> calculateTxid(data)]

getTxid(tx) == tx.txid_

getSize(tx) == Len(tx.data_)

\* The ids a caller may ask about: those of all payloads.
Txids == {calculateTxid(data) : data \in Payloads}

\* The threads that call one Mempool concurrently.
NThreads == 2

Threads == 1..NThreads

\* The threads that look coins up in one UTXOCache concurrently.
NReaders == 2

Readers == 1..NReaders

VARIABLES
    transactions_,  \* Mempool::transactions_ : txid -> Transaction
    totalSize_,     \* Mempool::totalSize_
    calls           \* history: the completed mutating calls, oldest first

\* The UTXO set of src/004-modern/02_containers.md (UTXOCache, UTXOSet), with
\* one thread that applies batches and one thread that looks coins up.
VARIABLES
    cache_,     \* UTXOCache::cache_ : outpoint -> coin
    db,         \* the database behind UTXOSet: outpoint -> coin
    mutexW,     \* UTXOCache::mutex_ is held exclusively (std::unique_lock)
    wpc,        \* where the batch thread is
    nbatches,   \* number of batches the batch thread has been called with
    batch,      \* the updates the batch thread was called with
    wi,         \* index of the next update batchUpdate's loop applies
    before,     \* history: cache_ when the latest batch took the lock
    rpc,        \* where the lookup thread is
    rkey,       \* the outpoint it looks up
    rout,       \* the optional coin it is about to return
    robs,       \* history: what its UTXOCache::getCoin observed
    roverlap,   \* history: a batch was in flight during this lookup
    rdirty,     \* history: a batch or database update ran during this lookup
    lastSeen,   \* history: the latest lookup and its result, if no batch
                \* step or database update has run since that lookup began
    spentBy     \* history: the outpoints spent, and not created again, by
                \* the applyBlock calls that have returned

\* Caller threads of one Mempool (its methods are steps under mutex_), and
\* reader threads of one UTXOCache (UTXOCache::getCoin, holding the shared
\* lock across its steps).
VARIABLES
    mtx,        \* Mempool::mutex_ : the thread that holds it, 0 when free
    tpc,        \* where each caller thread of the Mempool is
    targ,       \* the call it is in: operation, argument, call id, overlaps
    ttmp,       \* the value of totalSize_ it loaded
    ninv,       \* number of Mempool calls invoked so far
    mutexR,     \* UTXOCache::mutex_ : the threads that hold it shared
    gpc,        \* where each reader thread of the cache is
    gkey,       \* the outpoint it looks up
    gout        \* the optional coin it found

mempoolVars == <<transactions_, totalSize_, calls>>

cacheVars ==
    <<cache_, db, mutexW, wpc, nbatches, batch, wi, before,
      rpc, rkey, rout, robs, roverlap, rdirty, lastSeen, spentBy>>

threadVars == <<mtx, tpc, targ, ttmp, ninv>>

sharedVars == <<mutexR, gpc, gkey, gout>>

\* One wallet of src/002-oop/projects/02_wallet.md, used through the Wallet
\* interface: a BasicWallet or a MultiSigWallet.
VARIABLES
    balance,             \* Wallet::balance (a double)
    transactionHistory,  \* Wallet::transactionHistory, oldest first
    wkind,               \* the dynamic type of the wallet
    signers,             \* MultiSigWallet::signers
    requiredSignatures,  \* MultiSigWallet::requiredSignatures
    pendingSignatures,   \* MultiSigWallet::pendingSignatures
    wcall,               \* history: the latest call on the wallet
    wres,                \* history: how that call ended
    signedSince          \* history: authorized signers of addSignature calls
                         \* since the latest send that returned true

walletVars == <<balance, transactionHistory, wkind, signers,
                requiredSignatures, pendingSignatures, wcall, wres,
                signedSince>>

\* The transaction objects of src/002-oop/01_classes.md and
\* src/002-oop/02_inheritance.md, and the TransactionManager's loop over them.
VARIABLES
    txobjs,      \* the transaction objects, in the order they were added
    plog,     \* history: per object, what verify and execute returned
    ppc,      \* processTransactions: index of the next object, 0 outside
    pruns     \* number of processTransactions calls so far

txVars == <<txobjs, plog, ppc, pruns>>

\* The two accounts that src/001-basics/05_functions.md's transferFunds is
\* called on (by reference).
VARIABLES
    fromBalance,  \* the caller's first account
    toBalance,    \* the caller's second account
    fcall,        \* history: the amount and direction of the latest call
    fres          \* history: how that call ended

fundVars == <<fromBalance, toBalance, fcall, fres>>

\* One compact integer on its way through encode and decode
\* (src/005-network/projects/05_message_parser.md CompactInteger,
\* src/cpp_learning_files/02-variables_and_types.cpp CompactSize).
VARIABLES
    cvalue,   \* the uint64_t to encode: its 8 bytes, least significant first
    cimpl,    \* the class used
    chost,    \* the byte order of the host (what isLittleEndian() finds)
    cenc,     \* the vector encode returned, << >> before the call
    cdec      \* what decode returned or threw, << >> before the call

compactVars == <<cvalue, cimpl, chost, cenc, cdec>>

\* The MessageBuffer of src/005-network/projects/05_message_parser.md, the
\* thread that feeds it (main's addData) and the threads that run
\* processMessages on it.  mutex_ is held for the whole of addData and, in
\* getNextMessage, from one cv_.wait to the next: each such stretch is one
\* step, so the holder of mutex_ is not a variable.
VARIABLES
    buffer_,    \* MessageBuffer::buffer_
    stream,     \* the items the peer sends, in order (fixed)
    sent,       \* number of bytes of the stream handed to addData so far
    cpc,        \* where each processMessages thread is
    ctotal,     \* getNextMessage's local totalSize
    cret,       \* what the thread's latest getNextMessage returned
    delivered   \* history: the non-empty results, in order of extraction

bufVars == <<buffer_, stream, sent, cpc, ctotal, cret, delivered>>

\* The state of the programs other than the stores.
appVars == <<walletVars, txVars, fundVars, compactVars, bufVars>>

vars == <<mempoolVars, cacheVars, threadVars, sharedVars, appVars>>

\* The state of the stores (Mempool, UTXOCache, UTXOSet and their threads).
storeVars == <<mempoolVars, cacheVars, threadVars, sharedVars>>

\* A null std::unique_ptr<Transaction> is <<>>, a non-null one is <<tx>>.
nullptr == <<>>

----------------------------------------------------------------------------
(* Mempool *)

\* A removeTransaction that finds the entry and hands it out but forgets
\* transactions_.erase(it).
Mempool_removeTransaction_NoErase(txs, total, txid) ==
    IF txid \notin DOMAIN txs
    THEN [transactions_ |-> txs, totalSize_ |-> total, ret |-> nullptr]
    ELSE [transactions_ |-> txs,
          totalSize_ |-> total - getSize(txs[txid]),
          ret |-> <<txs[txid]>>]

\* A removeTransaction that looks the id up with operator[] instead of
\* find(): a miss leaves a default entry (an empty transaction) under the id.
Mempool_removeTransaction_Subscript(txs, total, txid) ==
    IF txid \notin DOMAIN txs
    THEN [transactions_ |->
             [k \in DOMAIN txs \cup {txid} |->
                 IF k = txid THEN [data_ |-> <<>>, txid_ |-> txid] ELSE txs[k]],
          totalSize_ |-> total,
          ret |-> nullptr]
    ELSE [transactions_ |-> [k \in DOMAIN txs \ {txid} |-> txs[k]],
          totalSize_ |-> total - getSize(txs[txid]),
          ret |-> <<txs[txid]>>]

\* An addTransaction that stores with emplace() semantics gone wrong: the
\* size is added but the entry is only stored when the map is empty.
Mempool_addTransaction_DropsEntry(txs, total, tx) ==
    [transactions_ |->
        IF DOMAIN txs = {} THEN [k \in {getTxid(tx)} |-> tx] ELSE txs,
     totalSize_ |-> total + getSize(tx)]

\* Mempool::addTransaction(std::unique_ptr<Transaction> tx):
\*     totalSize_ += tx->getSize();  transactions_[txid] = std::move(tx);
\* There is no lookup before the assignment: an id already present is
\* overwritten, and its size is added again.
Mempool_addTransaction(txs, total, tx) ==
    [transactions_ |->
        [k \in DOMAIN txs \cup {getTxid(tx)} |->
            IF k = getTxid(tx) THEN tx ELSE txs[k]],
     totalSize_ |-> total + getSize(tx)]

\* Mempool::removeTransaction(const std::string& txid): nullptr on a miss,
\* else subtract the size, move the pointer out and erase the entry.
Mempool_removeTransaction(txs, total, txid) ==
    IF txid \notin DOMAIN txs
    THEN [transactions_ |-> txs, totalSize_ |-> total, ret |-> nullptr]
    ELSE [transactions_ |-> [k \in DOMAIN txs \ {txid} |-> txs[k]],
          totalSize_ |-> total - getSize(txs[txid]),
          ret |-> <<txs[txid]>>]

\* Mempool::hasTransaction
hasTransaction(txid) == txid \in DOMAIN transactions_

\* Mempool::getTotalSize
getTotalSize == totalSize_

----------------------------------------------------------------------------
(* TransactionManager *)

\* TransactionManager::getMempoolSize
getMempoolSize == getTotalSize

\* TransactionManager::getTransactionCount: "return 0;  // Placeholder".
getTransactionCount == 0

----------------------------------------------------------------------------
(* UTXOCache and UTXOSet *)

\* Longest updates vector handed to UTXOCache::batchUpdate.
MaxBatch == 2

\* Number of batches applied in one behaviour.
MaxBatches == 1

\* The outpoints in play.
OutPoints == {1, 2}

\* Coin::value_ is an Amount (int64_t): two positive amounts and a negative
\* one.  A coin is modelled by its value; script_, height_ and is_coinbase_
\* travel with it unchanged.
Amounts == {-1, 1, 2}

Coin(value) == [value_ |-> value]

Coins == {Coin(v) : v \in Amounts}

\* std::nullopt is <<>>, an engaged std::optional<CoinType> is <<coin>>.
nullopt == <<>>

OptionalCoins == {nullopt} \cup {<<c>> : c \in Coins}

\* One element of the updates vector: std::pair<OutPoint, std::optional<Coin>>.
Updates == [outpoint : OutPoints, coin : OptionalCoins]

Batches == UNION {[1..n -> Updates] : n \in 0..MaxBatch}

\* The contents a database may start with: any coins of positive value.
Databases ==
    UNION {[S -> {Coin(v) : v \in {a \in Amounts : a > 0}}] :
              S \in SUBSET OutPoints}

\* A batch step that stores with emplace() instead of insert_or_assign(): a
\* coin already cached under the outpoint is kept.
UTXOCache_applyUpdate_Emplace(cache, u) ==
    IF u.coin # nullopt
    THEN IF u.outpoint \in DOMAIN cache THEN cache
         ELSE [o \in DOMAIN cache \cup {u.outpoint} |->
                  IF o = u.outpoint THEN u.coin[1] ELSE cache[o]]
    ELSE [o \in DOMAIN cache \ {u.outpoint} |-> cache[o]]

\* The body of UTXOCache::batchUpdate's loop for one element: an engaged
\* coin is stored with insert_or_assign, nullopt erases the outpoint.
UTXOCache_applyUpdate(cache, u) ==
    IF u.coin # nullopt
    THEN [o \in DOMAIN cache \cup {u.outpoint} |->
             IF o = u.outpoint THEN u.coin[1] ELSE cache[o]]
    ELSE [o \in DOMAIN cache \ {u.outpoint} |-> cache[o]]

\* UTXOCache::getCoin, the lookup under the shared lock.
UTXOCache_getCoin(cache, outpoint) ==
    IF outpoint \in DOMAIN cache THEN <<cache[outpoint]>> ELSE nullopt

\* An addCoin that takes the lock but never stores the coin.
UTXOCache_addCoin_NoStore(cache, outpoint, coin) == cache

\* UTXOCache::addCoin: cache_.emplace, which keeps a coin already cached.
UTXOCache_addCoin(cache, outpoint, coin) ==
    IF outpoint \in DOMAIN cache THEN cache
    ELSE [o \in DOMAIN cache \cup {outpoint} |->
             IF o = outpoint THEN coin ELSE cache[o]]

\* A getCoin that reads cache_ without taking mutex_.
CanLockShared_NoLock(held) == TRUE

\* std::shared_lock lock(mutex_) can be taken while no unique_lock is held.
CanLockShared(held) == ~held

\* std::unique_lock lock(mutex_) can be taken while nobody holds mutex_.  A
\* shared lock is only ever held within one step of the lookup thread, so
\* only the exclusive holder is tracked.
CanLockUnique(held, readers) == ~held /\ readers = {}

\* UTXOSet::fetchFromDatabase (declared, not defined): the coin the database
\* holds for the outpoint, if any.
fetchFromDatabase(database, outpoint) ==
    IF outpoint \in DOMAIN database THEN <<database[outpoint]>> ELSE nullopt

\* UTXOSet::updateDatabase (declared, not defined): the updates applied to
\* the database in order, an engaged coin written, nullopt deleted.
RECURSIVE updateDatabase(_, _)
updateDatabase(database, updates) ==
    IF updates = << >> THEN database
    ELSE LET u == Head(updates)
             written ==
                 IF u.coin # nullopt
                 THEN [o \in DOMAIN database \cup {u.outpoint} |->
                          IF o = u.outpoint THEN u.coin[1] ELSE database[o]]
                 ELSE [o \in DOMAIN database \ {u.outpoint} |-> database[o]]
         IN  updateDatabase(written, Tail(updates))

\* A default-constructed Mempool.
MempoolInit ==
    /\ transactions_ = << >>
    /\ totalSize_ = 0
    /\ calls = << >>

\* A freshly constructed UTXOSet (its constructor makes an empty cache) over
\* the database d, with both threads outside any call.
CacheInit(d) ==
    /\ cache_ = << >>
    /\ db = d
    /\ mutexW = FALSE
    /\ wpc = "idle"
    /\ nbatches = 0
    /\ batch = << >>
    /\ wi = 0
    /\ before = << >>
    /\ rpc = "idle"
    /\ rkey = 0
    /\ rout = nullopt
    /\ robs = << >>
    /\ roverlap = FALSE
    /\ rdirty = FALSE
    /\ lastSeen = << >>
    /\ spentBy = {}

\* Threads: mutex_ free and every caller thread outside any call.
ThreadInit ==
    /\ mtx = 0
    /\ tpc = [t \in Threads |-> "idle"]
    /\ targ = [t \in Threads |-> << >>]
    /\ ttmp = [t \in Threads |-> 0]
    /\ ninv = 0

\* No reader thread of the cache holds the shared lock or is in a call.
SharedInit ==
    /\ mutexR = {}
    /\ gpc = [t \in Readers |-> "idle"]
    /\ gkey = [t \in Readers |-> 0]
    /\ gout = [t \in Readers |-> nullopt]

\* A BasicWallet nobody has called yet.
WalletIdle ==
    /\ balance = [k |-> "fin", v |-> 0]
    /\ transactionHistory = << >>
    /\ wkind = "BasicWallet"
    /\ signers = << >>
    /\ requiredSignatures = 0
    /\ pendingSignatures = {}
    /\ wcall = << >>
    /\ wres = "none"
    /\ signedSince = {}

\* No transaction object yet.
TxIdle ==
    /\ txobjs = << >>
    /\ plog = << >>
    /\ ppc = 0
    /\ pruns = 0

\* Two empty accounts nobody has transferred between.
FundIdle ==
    /\ fromBalance = [k |-> "fin", v |-> 0]
    /\ toBalance = [k |-> "fin", v |-> 0]
    /\ fcall = << >>
    /\ fres = "none"

\* No compact integer in hand.
CompactIdle ==
    /\ cvalue = <<0, 0, 0, 0, 0, 0, 0, 0>>
    /\ cimpl = "CompactInteger"
    /\ chost = "little"
    /\ cenc = << >>
    /\ cdec = << >>

\* The other programs before their first step.
\* Threads that run processMessages on one MessageBuffer.
NConsumers == 2

Consumers == 1..NConsumers

\* No MessageBuffer in use.
BufIdle ==
    /\ buffer_ = << >>
    /\ stream = << >>
    /\ sent = 0
    /\ cpc = [t \in Consumers |-> "idle"]
    /\ ctotal = [t \in Consumers |-> 0]
    /\ cret = [t \in Consumers |-> << >>]
    /\ delivered = << >>

AppIdle == WalletIdle /\ TxIdle /\ FundIdle /\ CompactIdle /\ BufIdle

Init ==
    /\ MempoolInit
    /\ ThreadInit
    /\ SharedInit
    /\ CacheInit(<< >>)
    /\ AppIdle

\* TransactionManager::addTransaction(std::vector<uint8_t> txData): builds
\* the Transaction, hands it to the mempool and returns true.
AddTransaction(txData) ==
    /\ Len(calls) < MaxCalls
    /\ LET tx == Transaction(txData)
           r  == Mempool_addTransaction(transactions_, totalSize_, tx)
       IN  /\ transactions_' = r.transactions_
           /\ totalSize_' = r.totalSize_
           /\ calls' = Append(calls,
                  [op |-> "add", txid |-> getTxid(tx), size |-> getSize(tx),
                   ok |-> TRUE, out |-> nullptr])
    /\ UNCHANGED <<cacheVars, threadVars, sharedVars, appVars>>

\* A caller's Mempool::removeTransaction(txid); the returned pointer is
\* recorded in the call's out field.
RemoveTransaction(txid) ==
    /\ Len(calls) < MaxCalls
    /\ LET r == Mempool_removeTransaction(transactions_, totalSize_, txid)
       IN  /\ transactions_' = r.transactions_
           /\ totalSize_' = r.totalSize_
           /\ calls' = Append(calls,
                  [op |-> "remove", txid |-> txid, size |-> 0,
                   ok |-> r.ret # nullptr, out |-> r.ret])
    /\ UNCHANGED <<cacheVars, threadVars, sharedVars, appVars>>

Next ==
    \/ \E txData \in Payloads : AddTransaction(txData)
    \/ \E txid \in Txids : RemoveTransaction(txid)

Spec == Init /\ [][Next]_vars

----------------------------------------------------------------------------
(* The batch thread: UTXOSet::applyBlock, or a direct caller of
   UTXOCache::batchUpdate *)

\* The thread is called with an updates vector and goes for the lock.
W_call(b) ==
    /\ wpc = "idle"
    /\ nbatches < MaxBatches
    /\ nbatches' = nbatches + 1
    /\ wpc' = "waiting"
    /\ batch' = b
    /\ roverlap' = (roverlap \/ rpc # "idle")
    /\ UNCHANGED <<cache_, db, mutexW, wi, before,
                   rpc, rkey, rout, robs, rdirty, lastSeen, spentBy>>

\* batchUpdate: std::unique_lock lock(mutex_).
W_lock ==
    /\ wpc = "waiting"
    /\ CanLockUnique(mutexW, mutexR)
    /\ mutexW' = TRUE
    /\ wpc' = "locked"
    /\ wi' = 1
    /\ before' = cache_
    /\ UNCHANGED <<cache_, db, nbatches, batch,
                   rpc, rkey, rout, robs, roverlap, rdirty, lastSeen,
                   spentBy>>

\* batchUpdate: one turn of the loop over [first, last).
W_apply ==
    /\ wpc = "locked"
    /\ wi <= Len(batch)
    /\ cache_' = UTXOCache_applyUpdate(cache_, batch[wi])
    /\ wi' = wi + 1
    /\ rdirty' = (rdirty \/ rpc # "idle")
    /\ lastSeen' = << >>
    /\ spentBy' = IF batch[wi].coin # nullopt
                  THEN spentBy \ {batch[wi].outpoint}
                  ELSE spentBy
    /\ UNCHANGED <<db, mutexW, wpc, nbatches, batch, before,
                   rpc, rkey, rout, robs, roverlap>>

\* batchUpdate returns: the loop is over and the lock is released.
W_unlock ==
    /\ wpc = "locked"
    /\ wi > Len(batch)
    /\ mutexW' = FALSE
    /\ wpc' = "unlocked"
    /\ UNCHANGED <<cache_, db, nbatches, batch, wi, before,
                   rpc, rkey, rout, robs, roverlap, rdirty, lastSeen,
                   spentBy>>

\* A direct caller of batchUpdate is done.
W_return ==
    /\ wpc = "unlocked"
    /\ wpc' = "idle"
    /\ batch' = << >>
    /\ wi' = 0
    /\ before' = << >>
    /\ UNCHANGED <<cache_, db, mutexW, nbatches,
                   rpc, rkey, rout, robs, roverlap, rdirty, lastSeen,
                   spentBy>>

\* The outpoints a block spends and does not create again: those with a
\* std::nullopt element and no engaged element in applyBlock's updates.
SpentOnly(updates) ==
    {updates[i].outpoint :
        i \in {j \in DOMAIN updates : updates[j].coin = nullopt}}
    \ {updates[i].outpoint :
        i \in {j \in DOMAIN updates : updates[j].coin # nullopt}}

\* applyBlock goes on to updateDatabase(updates) and returns.
W_updateDatabase ==
    /\ wpc = "unlocked"
    /\ db' = updateDatabase(db, batch)
    /\ wpc' = "idle"
    /\ batch' = << >>
    /\ wi' = 0
    /\ before' = << >>
    /\ rdirty' = (rdirty \/ rpc # "idle")
    /\ lastSeen' = << >>
    /\ spentBy' = spentBy \cup SpentOnly(batch)
    /\ UNCHANGED <<cache_, mutexW, nbatches, rpc, rkey, rout, robs, roverlap>>

----------------------------------------------------------------------------
(* The lookup thread: UTXOSet::getCoin *)

\* The cache as batchUpdate leaves it when run on cache with all of updates.
RECURSIVE AfterBatch(_, _)
AfterBatch(cache, updates) ==
    IF updates = << >> THEN cache
    ELSE AfterBatch(UTXOCache_applyUpdate(cache, Head(updates)), Tail(updates))

\* UTXOSet::getCoin(outpoint) is called.
R_call(o) ==
    /\ rpc = "idle"
    /\ rpc' = "cache"
    /\ rkey' = o
    /\ rout' = nullopt
    /\ robs' = << >>
    /\ roverlap' = (wpc \in {"waiting", "locked"})
    /\ rdirty' = FALSE
    /\ UNCHANGED <<cache_, db, mutexW, wpc, nbatches, batch, wi, before,
                   lastSeen, spentBy>>

\* "Try cache first": UTXOCache::getCoin takes the shared lock, looks the
\* outpoint up and releases the lock.  The observation is recorded together
\* with what the cache held for the outpoint before, and holds after, the
\* batch in progress (if there is none: what it holds now).
R_cacheGet ==
    /\ rpc = "cache"
    /\ CanLockShared(mutexW)
    /\ LET got == UTXOCache_getCoin(cache_, rkey)
       IN  /\ robs' = <<[out  |-> got,
                         pre  |-> IF wpc = "locked"
                                  THEN UTXOCache_getCoin(before, rkey)
                                  ELSE got,
                         post |-> IF wpc = "locked"
                                  THEN UTXOCache_getCoin(
                                           AfterBatch(before, batch), rkey)
                                  ELSE got]>>
           /\ rout' = got
           /\ rpc' = IF got # nullopt THEN "return" ELSE "fetch"
    /\ UNCHANGED <<cache_, db, mutexW, wpc, nbatches, batch, wi, before,
                   rkey, roverlap, rdirty, lastSeen, spentBy>>

\* "Try database": fetchFromDatabase(outpoint), outside any lock.
R_fetch ==
    /\ rpc = "fetch"
    /\ rout' = fetchFromDatabase(db, rkey)
    /\ rpc' = IF rout' # nullopt THEN "fill" ELSE "return"
    /\ UNCHANGED <<cache_, db, mutexW, wpc, nbatches, batch, wi, before,
                   rkey, robs, roverlap, rdirty, lastSeen, spentBy>>

\* cache_->addCoin(outpoint, *coin): unique lock, emplace, unlock.
R_fill ==
    /\ rpc = "fill"
    /\ CanLockUnique(mutexW, mutexR)
    /\ cache_' = UTXOCache_addCoin(cache_, rkey, rout[1])
    /\ rpc' = "return"
    /\ UNCHANGED <<db, mutexW, wpc, nbatches, batch, wi, before,
                   rkey, rout, robs, roverlap, rdirty, lastSeen, spentBy>>

\* getCoin returns rout.  A result obtained with no batch step or database
\* update during the call is remembered until the next such mutation.
R_return ==
    /\ rpc = "return"
    /\ rpc' = "idle"
    /\ lastSeen' = IF rdirty THEN lastSeen
                   ELSE <<[outpoint |-> rkey, coin |-> rout]>>
    /\ rkey' = 0
    /\ rout' = nullopt
    /\ robs' = << >>
    /\ roverlap' = FALSE
    /\ rdirty' = FALSE
    /\ UNCHANGED <<cache_, db, mutexW, wpc, nbatches, batch, wi, before,
                   spentBy>>

\* What the steps of the UTXO set leave alone.
otherVars == <<mempoolVars, threadVars, sharedVars, appVars>>

InitCache ==
    /\ MempoolInit
    /\ ThreadInit
    /\ SharedInit
    /\ AppIdle
    /\ \E d \in Databases : CacheInit(d)

NextCache ==
    \/ \E b \in Batches : W_call(b) /\ UNCHANGED otherVars
    \/ W_lock /\ UNCHANGED otherVars
    \/ W_apply /\ UNCHANGED otherVars
    \/ W_unlock /\ UNCHANGED otherVars
    \/ W_return /\ UNCHANGED otherVars
    \/ W_updateDatabase /\ UNCHANGED otherVars
    \/ \E o \in OutPoints : R_call(o) /\ UNCHANGED otherVars
    \/ R_cacheGet /\ UNCHANGED otherVars
    \/ R_fetch /\ UNCHANGED otherVars
    \/ R_fill /\ UNCHANGED otherVars
    \/ R_return /\ UNCHANGED otherVars

SpecCache == InitCache /\ [][NextCache]_vars

----------------------------------------------------------------------------
(* Caller threads of the Mempool: every method starts with
   std::lock_guard<std::mutex> lock(mutex_) *)

\* std::mutex::lock can return only when no thread holds the mutex.
Mutex_canLock(holder) == holder = 0

\* Ids of the calls that are in progress.
InFlight == {targ[u].id : u \in {v \in Threads : tpc[v] # "idle"}}

\* Thread t enters a call with id ninv + 1; the calls in progress and the
\* new call are recorded as overlapping each other.
Invoke(t, call) ==
    /\ tpc[t] = "idle"
    /\ ninv < MaxCalls
    /\ ninv' = ninv + 1
    /\ tpc' = [tpc EXCEPT ![t] = "waiting"]
    /\ targ' = [u \in Threads |->
                  IF u = t
                  THEN [op |-> call.op, tx |-> call.tx, txid |-> call.txid,
                        out |-> nullptr, id |-> ninv + 1, with |-> InFlight]
                  ELSE IF tpc[u] # "idle"
                       THEN [targ[u] EXCEPT !.with = @ \cup {ninv + 1}]
                       ELSE targ[u]]
    /\ UNCHANGED <<mtx, ttmp, mempoolVars>>

\* TransactionManager::addTransaction(txData) on thread t: the Transaction
\* is built, then Mempool::addTransaction is entered.
T_callAdd(t, txData) ==
    Invoke(t, [op |-> "add", tx |-> <<Transaction(txData)>>,
               txid |-> getTxid(Transaction(txData))])

\* Mempool::removeTransaction(txid) on thread t.
T_callRemove(t, txid) ==
    Invoke(t, [op |-> "remove", tx |-> nullptr, txid |-> txid])

\* The lock_guard's constructor returns.
T_lock(t) ==
    /\ tpc[t] = "waiting"
    /\ Mutex_canLock(mtx)
    /\ mtx' = t
    /\ tpc' = [tpc EXCEPT ![t] = "locked"]
    /\ UNCHANGED <<targ, ttmp, ninv, mempoolVars>>

\* The thread loads totalSize_ (the read half of += and -=).
T_load(t) ==
    /\ tpc[t] = "locked"
    /\ ttmp' = [ttmp EXCEPT ![t] = totalSize_]
    /\ tpc' = [tpc EXCEPT ![t] = "loaded"]
    /\ UNCHANGED <<mtx, targ, ninv, mempoolVars>>

\* The thread writes totalSize_ back and updates transactions_; a remove of
\* an absent id writes nothing.
T_store(t) ==
    /\ tpc[t] = "loaded"
    /\ tpc' = [tpc EXCEPT ![t] = "stored"]
    /\ IF targ[t].op = "add"
       THEN LET r == Mempool_addTransaction(transactions_, ttmp[t],
                                            targ[t].tx[1])
            IN  /\ transactions_' = r.transactions_
                /\ totalSize_' = r.totalSize_
                /\ UNCHANGED targ
       ELSE IF targ[t].txid \notin DOMAIN transactions_
       THEN UNCHANGED <<transactions_, totalSize_, targ>>
       ELSE LET r == Mempool_removeTransaction(transactions_, ttmp[t],
                                               targ[t].txid)
            IN  /\ transactions_' = r.transactions_
                /\ totalSize_' = r.totalSize_
                /\ targ' = [targ EXCEPT ![t].out = r.ret]
    /\ UNCHANGED <<mtx, ttmp, ninv, calls>>

\* The lock_guard is destroyed and the call returns: true from
\* TransactionManager::addTransaction, the pointer from removeTransaction.
T_unlock(t) ==
    /\ tpc[t] = "stored"
    /\ mtx' = 0
    /\ tpc' = [tpc EXCEPT ![t] = "idle"]
    /\ calls' = Append(calls,
          [op |-> targ[t].op, txid |-> targ[t].txid,
           size |-> IF targ[t].op = "add" THEN getSize(targ[t].tx[1]) ELSE 0,
           ok |-> (targ[t].op = "add" \/ targ[t].out # nullptr),
           out |-> targ[t].out,
           thread |-> t, id |-> targ[t].id, with |-> targ[t].with])
    /\ targ' = [targ EXCEPT ![t] = << >>]
    /\ ttmp' = [ttmp EXCEPT ![t] = 0]
    /\ UNCHANGED <<ninv, transactions_, totalSize_>>

\* What the steps of the Mempool's caller threads leave alone.
threadFrame == <<cacheVars, sharedVars, appVars>>

NextThreads ==
    \/ \E t \in Threads, txData \in Payloads :
          T_callAdd(t, txData) /\ UNCHANGED threadFrame
    \/ \E t \in Threads, txid \in Txids :
          T_callRemove(t, txid) /\ UNCHANGED threadFrame
    \/ \E t \in Threads : T_lock(t) /\ UNCHANGED threadFrame
    \/ \E t \in Threads : T_load(t) /\ UNCHANGED threadFrame
    \/ \E t \in Threads : T_store(t) /\ UNCHANGED threadFrame
    \/ \E t \in Threads : T_unlock(t) /\ UNCHANGED threadFrame

SpecThreads == Init /\ [][NextThreads]_vars

----------------------------------------------------------------------------
(* Reader threads of the cache next to the batch thread: UTXOCache::getCoin
   step by step, the shared lock held from its first step to its return *)

\* A thread calls UTXOCache::getCoin(o) and goes for the shared lock.
G_call(t, o) ==
    /\ gpc[t] = "idle"
    /\ gpc' = [gpc EXCEPT ![t] = "waiting"]
    /\ gkey' = [gkey EXCEPT ![t] = o]
    /\ UNCHANGED <<mutexR, gout>>

\* std::shared_lock lock(mutex_) returns. std::shared_mutex leaves open
\* whether a reader may pass a waiting writer: the guard only excludes a
\* writer that holds the mutex.
G_lockShared(t) ==
    /\ gpc[t] = "waiting"
    /\ CanLockShared(mutexW)
    /\ mutexR' = mutexR \cup {t}
    /\ gpc' = [gpc EXCEPT ![t] = "locked"]
    /\ UNCHANGED <<gkey, gout>>

\* cache_.find(outpoint)
G_find(t) ==
    /\ gpc[t] = "locked"
    /\ gout' = [gout EXCEPT ![t] = UTXOCache_getCoin(cache_, gkey[t])]
    /\ gpc' = [gpc EXCEPT ![t] = "found"]
    /\ UNCHANGED <<mutexR, gkey>>

\* The shared_lock is destroyed and getCoin returns.
G_return(t) ==
    /\ gpc[t] = "found"
    /\ mutexR' = mutexR \ {t}
    /\ gpc' = [gpc EXCEPT ![t] = "idle"]
    /\ gkey' = [gkey EXCEPT ![t] = 0]
    /\ gout' = [gout EXCEPT ![t] = nullopt]

\* What the steps of the reader threads leave alone.
readerFrame == <<mempoolVars, threadVars, cacheVars, appVars>>

S_call(b) == W_call(b) /\ UNCHANGED otherVars
S_lock == W_lock /\ UNCHANGED otherVars
S_apply == W_apply /\ UNCHANGED otherVars
S_unlock == W_unlock /\ UNCHANGED otherVars
S_return == W_return /\ UNCHANGED otherVars
S_lockShared(t) == G_lockShared(t) /\ UNCHANGED readerFrame
S_find(t) == G_find(t) /\ UNCHANGED readerFrame
S_getCoinReturn(t) == G_return(t) /\ UNCHANGED readerFrame

NextShared ==
    \/ \E b \in Batches : S_call(b)
    \/ S_lock
    \/ S_apply
    \/ S_unlock
    \/ S_return
    \/ \E t \in Readers, o \in OutPoints : G_call(t, o) /\ UNCHANGED readerFrame
    \/ \E t \in Readers : S_lockShared(t)
    \/ \E t \in Readers : S_find(t)
    \/ \E t \in Readers : S_getCoinReturn(t)

\* Fair scheduling: a thread inside a call keeps taking steps, and a thread
\* waiting for the mutex gets it if it can take it again and again. Callers
\* are free never to call.
FairShared ==
    /\ SF_vars(S_lock)
    /\ WF_vars(S_apply)
    /\ WF_vars(S_unlock)
    /\ WF_vars(S_return)
    /\ \A t \in Readers :
          /\ SF_vars(S_lockShared(t))
          /\ WF_vars(S_find(t))
          /\ WF_vars(S_getCoinReturn(t))

SpecShared == Init /\ [][NextShared]_vars /\ FairShared

----------------------------------------------------------------------------
(* double: the values that matter to the wallets. Finite values are
   integers (sums and differences of the few amounts used are exact), next
   to the infinities and NaN. *)

MaxBalance == 3

Fin(n) == [k |-> "fin", v |-> n]

PosInf == [k |-> "inf", v |-> 1]

NegInf == [k |-> "inf", v |-> -1]

NaN == [k |-> "nan", v |-> 0]

\* Position of a non-NaN value on the number line.
Rank(a) == IF a.k = "inf" THEN a.v * (2 * MaxBalance + 2) ELSE a.v

\* a < b, a <= b, a > b on doubles: false when an operand is NaN.
dLt(a, b) == a.k # "nan" /\ b.k # "nan" /\ Rank(a) < Rank(b)

dLe(a, b) == a.k # "nan" /\ b.k # "nan" /\ Rank(a) <= Rank(b)

dGt(a, b) == dLt(b, a)

\* a + b and a - b on doubles.
dAdd(a, b) ==
    IF a.k = "nan" \/ b.k = "nan" THEN NaN
    ELSE IF a.k = "inf" /\ b.k = "inf" THEN (IF a.v = b.v THEN a ELSE NaN)
    ELSE IF a.k = "inf" THEN a
    ELSE IF b.k = "inf" THEN b
    ELSE Fin(a.v + b.v)

dNeg(a) == IF a.k = "nan" THEN NaN ELSE [k |-> a.k, v |-> 0 - a.v]

dSub(a, b) == dAdd(a, dNeg(b))

\* The amounts a caller passes.
AmountArgs == {Fin(-1), Fin(0), Fin(1), Fin(2), PosInf, NegInf, NaN}

----------------------------------------------------------------------------
(* Wallets: src/002-oop/projects/02_wallet.md *)

MaxHistory == 3

Address == "alice"

Recipients == {"bob"}

\* The names addSignature is called with, and the vectors of authorized
\* signers a MultiSigWallet is constructed with (repeats allowed).
Names == {"s1", "s2", "mallory"}

AuthorizedLists ==
    {<< >>} \cup {<<a>> : a \in {"s1", "s2"}}
            \cup {<<a, b>> : a \in {"s1", "s2"}, b \in {"s1", "s2"}}

\* Transaction(from, to, amt): confirmed starts false. The id and the
\* timestamp come from the clock and are left out.
WalletTransaction(from, to, amt) ==
    [sender |-> from, recipient |-> to, amount |-> amt, confirmed |-> FALSE]

\* Transaction::confirm
confirm(tx) == [tx EXCEPT !.confirmed = TRUE]

\* The outcome of a call: how it ended and the members it leaves behind.
Outcome(res, bal, hist, pend) ==
    [res |-> res, balance |-> bal, transactionHistory |-> hist,
     pendingSignatures |-> pend]

\* "Deduct first": the balance is changed before the amount is validated
\* (processPayment as first written in 02_containers.md:1032-1040).
BasicWallet_send_DeductFirst(bal, hist, pend, amount, to) ==
    IF dLe(amount, Fin(0))
    THEN Outcome("invalid_argument", dSub(bal, amount), hist, pend)
    ELSE IF dGt(amount, dSub(bal, amount))
    THEN Outcome("runtime_error", dSub(bal, amount), hist, pend)
    ELSE Outcome("true", dSub(bal, amount),
                 Append(hist, WalletTransaction(Address, to, amount)), pend)

\* BasicWallet::send
BasicWallet_send(bal, hist, pend, amount, to) ==
    IF dLe(amount, Fin(0))
    THEN Outcome("invalid_argument", bal, hist, pend)
    ELSE IF dGt(amount, bal)
    THEN Outcome("runtime_error", bal, hist, pend)
    ELSE Outcome("true", dSub(bal, amount),
                 Append(hist, WalletTransaction(Address, to, amount)), pend)

\* A send that forgets pendingSignatures.clear().
MultiSigWallet_send_KeepsSignatures(bal, hist, pend, required, amount, to) ==
    IF dLe(amount, Fin(0))
    THEN Outcome("invalid_argument", bal, hist, pend)
    ELSE IF dGt(amount, bal)
    THEN Outcome("runtime_error", bal, hist, pend)
    ELSE IF Cardinality(pend) < required
    THEN Outcome("runtime_error", bal, hist, pend)
    ELSE Outcome("true", dSub(bal, amount),
                 Append(hist, WalletTransaction(Address, to, amount)), pend)

\* MultiSigWallet::send
MultiSigWallet_send(bal, hist, pend, required, amount, to) ==
    IF dLe(amount, Fin(0))
    THEN Outcome("invalid_argument", bal, hist, pend)
    ELSE IF dGt(amount, bal)
    THEN Outcome("runtime_error", bal, hist, pend)
    ELSE IF Cardinality(pend) < required
    THEN Outcome("runtime_error", bal, hist, pend)
    ELSE Outcome("true", dSub(bal, amount),
                 Append(hist, WalletTransaction(Address, to, amount)), {})

\* BasicWallet::receive and MultiSigWallet::receive (the same body).
Wallet_receive(bal, hist, pend, amount) ==
    IF dLe(amount, Fin(0))
    THEN Outcome("invalid_argument", bal, hist, pend)
    ELSE Outcome("void", dAdd(bal, amount),
                 Append(hist,
                        confirm(WalletTransaction("external", Address,
                                                  amount))), pend)

\* std::find(signers.begin(), signers.end(), signer) != signers.end()
FoundIn(list, signer) == \E i \in 1..Len(list) : list[i] = signer

\* MultiSigWallet::addSignature
MultiSigWallet_addSignature(bal, hist, pend, list, signer) ==
    IF ~FoundIn(list, signer)
    THEN Outcome("false", bal, hist, pend)
    ELSE Outcome("true", bal, hist, pend \cup {signer})

\* A constructed wallet: a BasicWallet, or a MultiSigWallet whose
\* constructor did not throw (required <= authorized.size()).
WalletInit ==
    /\ balance = Fin(0)
    /\ transactionHistory = << >>
    /\ pendingSignatures = {}
    /\ wcall = << >>
    /\ wres = "none"
    /\ signedSince = {}
    /\ \/ /\ wkind = "BasicWallet"
          /\ signers = << >>
          /\ requiredSignatures = 0
       \/ /\ wkind = "MultiSigWallet"
          /\ signers \in AuthorizedLists
          /\ requiredSignatures \in 0..Len(signers)

\* The members a call leaves behind, and the record of the call.
Leaves(call, o) ==
    /\ Len(transactionHistory) < MaxHistory
    /\ o.balance.k = "fin" => o.balance.v <= MaxBalance
    /\ balance' = o.balance
    /\ transactionHistory' = o.transactionHistory
    /\ pendingSignatures' = o.pendingSignatures
    /\ wcall' = call
    /\ wres' = o.res
    /\ UNCHANGED <<wkind, signers, requiredSignatures>>

\* wallet->send(amount, to), dispatched on the dynamic type.
Send(amount, to) ==
    LET o == IF wkind = "BasicWallet"
             THEN BasicWallet_send(balance, transactionHistory,
                                   pendingSignatures, amount, to)
             ELSE MultiSigWallet_send(balance, transactionHistory,
                                      pendingSignatures, requiredSignatures,
                                      amount, to)
    IN  /\ Leaves([op |-> "send", amount |-> amount, name |-> to], o)
        /\ signedSince' = IF o.res = "true" THEN {} ELSE signedSince

\* wallet->receive(amount)
Receive(amount) ==
    /\ Leaves([op |-> "receive", amount |-> amount, name |-> ""],
              Wallet_receive(balance, transactionHistory, pendingSignatures,
                             amount))
    /\ UNCHANGED signedSince

\* multisig->addSignature(signer)
AddSignature(signer) ==
    /\ wkind = "MultiSigWallet"
    /\ Leaves([op |-> "addSignature", amount |-> NaN, name |-> signer],
              MultiSigWallet_addSignature(balance, transactionHistory,
                                          pendingSignatures, signers, signer))
    /\ signedSince' = IF \E i \in 1..Len(signers) : signers[i] = signer
                      THEN signedSince \cup {signer} ELSE signedSince

\* What the steps of the wallet leave alone.
walletFrame == <<storeVars, txVars, fundVars, compactVars, bufVars>>

InitWallet ==
    /\ MempoolInit
    /\ ThreadInit
    /\ SharedInit
    /\ CacheInit(<< >>)
    /\ WalletInit
    /\ TxIdle
    /\ FundIdle
    /\ CompactIdle
    /\ BufIdle

NextWallet ==
    \/ \E a \in AmountArgs, to \in Recipients :
          Send(a, to) /\ UNCHANGED walletFrame
    \/ \E a \in AmountArgs : Receive(a) /\ UNCHANGED walletFrame
    \/ \E n \in Names : AddSignature(n) /\ UNCHANGED walletFrame

SpecWallet == InitWallet /\ [][NextWallet]_vars

----------------------------------------------------------------------------
(* Transactions that must be verified before they execute:
   src/002-oop/01_classes.md (Transaction) and src/002-oop/02_inheritance.md
   (PaymentTransaction, MultiSigTransaction, TransactionManager) *)

MaxTxs == 2

MaxSignatures == 1

MaxRuns == 1

\* The objects a program constructs. to is the receiver (Transaction) or the
\* recipient (PaymentTransaction); nreq is requiredSigners.size() and nsig is
\* signatures.size(). isValid and verified both start false.
TxObjects ==
    [kind : {"Transaction", "PaymentTransaction"},
     amount : {Fin(0), Fin(1), NaN}, sender : {"a"}, to : {"a", "b"},
     nreq : {0}, nsig : {0}, verified : {FALSE}]
    \cup
    [kind : {"MultiSigTransaction"},
     amount : {Fin(1)}, sender : {"a"}, to : {""},
     nreq : {0, 1}, nsig : {0}, verified : {FALSE}]

TxLists ==
    {<< >>} \cup {<<a>> : a \in TxObjects}
            \cup {<<a, b>> : a \in TxObjects, b \in TxObjects}

\* Transaction::validate, PaymentTransaction::verify and
\* MultiSigTransaction::verify: the value they store and return.
Transaction_verify(tx) ==
    IF tx.kind = "MultiSigTransaction"
    THEN tx.nsig >= tx.nreq
    ELSE dGt(tx.amount, Fin(0)) /\ tx.sender # tx.to

\* An execute that does not look at the flag.
Transaction_execute_NoCheck(tx) == "completed"

\* Transaction::execute, PaymentTransaction::execute and
\* MultiSigTransaction::execute: throw unless the flag is set.
Transaction_execute(tx) == IF ~tx.verified THEN "threw" ELSE "completed"

\* The log entry of an object nobody has called.
NoCalls == [everTrue |-> FALSE, verify |-> "none", execute |-> "none",
            visits |-> 0]

TxInit ==
    /\ txobjs \in TxLists
    /\ Len(txobjs) <= MaxTxs
    /\ plog = [i \in 1..Len(txobjs) |-> NoCalls]
    /\ ppc = 0
    /\ pruns = 0

\* tx->verify() (tx->validate()) called on object i.
Verify(i) ==
    /\ ppc = 0
    /\ LET ret == Transaction_verify(txobjs[i])
       IN  /\ txobjs' = [txobjs EXCEPT ![i].verified = ret]
           /\ plog' = [plog EXCEPT
                 ![i].everTrue = @ \/ ret,
                 ![i].verify = IF ret THEN "true" ELSE "false"]
    /\ UNCHANGED <<ppc, pruns>>

\* tx->execute() called on object i.
Execute(i) ==
    /\ ppc = 0
    /\ plog' = [plog EXCEPT ![i].execute = Transaction_execute(txobjs[i])]
    /\ UNCHANGED <<txobjs, ppc, pruns>>

\* MultiSigTransaction::addSignature on object i.
TxAddSignature(i) ==
    /\ ppc = 0
    /\ txobjs[i].kind = "MultiSigTransaction"
    /\ txobjs[i].nsig < MaxSignatures
    /\ txobjs' = [txobjs EXCEPT ![i].nsig = @ + 1]
    /\ UNCHANGED <<plog, ppc, pruns>>

\* TransactionManager::processTransactions is called; its vector holds the
\* objects, which all derive from 02_inheritance.md's Transaction.
ProcessStart ==
    /\ ppc = 0
    /\ pruns < MaxRuns
    /\ \A i \in 1..Len(txobjs) : txobjs[i].kind # "Transaction"
    /\ pruns' = pruns + 1
    /\ ppc' = 1
    /\ UNCHANGED <<txobjs, plog>>

\* One iteration of the loop: verify, execute when verify returned true, and
\* catch whatever execute throws.
ProcessOne ==
    /\ ppc \in 1..Len(txobjs)
    /\ LET i   == ppc
           ret == Transaction_verify(txobjs[i])
           tx  == [txobjs[i] EXCEPT !.verified = ret]
       IN  /\ txobjs' = [txobjs EXCEPT ![i] = tx]
           /\ plog' = [plog EXCEPT
                 ![i].everTrue = @ \/ ret,
                 ![i].verify = IF ret THEN "true" ELSE "false",
                 ![i].execute = IF ret THEN Transaction_execute(tx) ELSE @,
                 ![i].visits = @ + 1]
    /\ ppc' = ppc + 1
    /\ UNCHANGED pruns

\* The loop is over and processTransactions returns.
ProcessReturn ==
    /\ ppc = Len(txobjs) + 1
    /\ ppc' = 0
    /\ UNCHANGED <<txobjs, plog, pruns>>

\* What the steps on the transaction objects leave alone.
txFrame == <<storeVars, walletVars, fundVars, compactVars, bufVars>>

InitTx ==
    /\ MempoolInit
    /\ ThreadInit
    /\ SharedInit
    /\ CacheInit(<< >>)
    /\ WalletIdle
    /\ TxInit
    /\ FundIdle
    /\ CompactIdle
    /\ BufIdle

NextTx ==
    \/ \E i \in 1..Len(txobjs) : Verify(i) /\ UNCHANGED txFrame
    \/ \E i \in 1..Len(txobjs) : Execute(i) /\ UNCHANGED txFrame
    \/ \E i \in 1..Len(txobjs) : TxAddSignature(i) /\ UNCHANGED txFrame
    \/ ProcessStart /\ UNCHANGED txFrame
    \/ ProcessOne /\ UNCHANGED txFrame
    \/ ProcessReturn /\ UNCHANGED txFrame

SpecTx == InitTx /\ [][NextTx]_vars

----------------------------------------------------------------------------
(* transferFunds: src/001-basics/05_functions.md (and transfer in
   src/004-modern/02_containers.md, the same body) *)

\* transferFunds(amount, fromBalance, toBalance): the outcome and the two
\* balances it leaves behind.
transferFunds(amount, from, to) ==
    IF dLe(amount, Fin(0))
    THEN [res |-> "invalid_argument", from |-> from, to |-> to]
    ELSE IF dGt(amount, from)
    THEN [res |-> "runtime_error", from |-> from, to |-> to]
    ELSE [res |-> "void", from |-> dSub(from, amount),
          to |-> dAdd(to, amount)]

\* The accounts a caller starts with.
FundInit ==
    /\ fromBalance \in {Fin(n) : n \in 0..MaxBalance}
    /\ toBalance \in {Fin(0), Fin(1)}
    /\ fcall = << >>
    /\ fres = "none"

\* A call of transferFunds on the two accounts.
TransferFunds(amount) ==
    LET o == transferFunds(amount, fromBalance, toBalance)
    IN  /\ o.to.k = "fin" => o.to.v <= MaxBalance
        /\ fromBalance' = o.from
        /\ toBalance' = o.to
        /\ fcall' = [amount |-> amount, forward |-> TRUE]
        /\ fres' = o.res

\* The same call in the other direction.
TransferBack(amount) ==
    LET o == transferFunds(amount, toBalance, fromBalance)
    IN  /\ o.to.k = "fin" => o.to.v <= MaxBalance
        /\ toBalance' = o.from
        /\ fromBalance' = o.to
        /\ fcall' = [amount |-> amount, forward |-> FALSE]
        /\ fres' = o.res

\* What the steps of the transfers leave alone.
fundFrame == <<storeVars, walletVars, txVars, compactVars, bufVars>>

InitFunds ==
    /\ MempoolInit
    /\ ThreadInit
    /\ SharedInit
    /\ CacheInit(<< >>)
    /\ WalletIdle
    /\ TxIdle
    /\ FundInit
    /\ CompactIdle
    /\ BufIdle

NextFunds ==
    \/ \E a \in AmountArgs : TransferFunds(a) /\ UNCHANGED fundFrame
    \/ \E a \in AmountArgs : TransferBack(a) /\ UNCHANGED fundFrame

SpecFunds == InitFunds /\ [][NextFunds]_vars

----------------------------------------------------------------------------
(* Compact integers: CompactInteger (05_message_parser.md) and CompactSize
   (02-variables_and_types.cpp). An unsigned integer of w bytes is the
   sequence of its bytes, least significant first. *)

\* The uint64_t values encoded: bytes chosen so that both sides of every
\* threshold (0xFC, 0xFFFF, 0xFFFFFFFF) and the largest value occur.
U64s ==
    {<<b0, b1, b2, b3, b4, h, h, h>> :
        b0 \in {0, 1, 252, 253, 254, 255}, b1 \in {0, 1, 253, 255},
        b2 \in {0, 1, 255}, b3 \in {0, 255}, b4 \in {0, 1, 255},
        h \in {0, 255}}

\* The bytes from..to of v are all zero.
ZeroFrom(v, from) == \A i \in from..Len(v) : v[i] = 0

\* (value >> (8 * i)) & 0xFF
ByteAt(v, i) == v[i + 1]

\* static_cast to an unsigned type of w bytes (truncation), and the implicit
\* conversion back to uint64_t (zero extension).
Narrow(v, w) == SubSeq(v, 1, w)

Widen(v) == v \o [i \in 1..(8 - Len(v)) |-> 0]

\* An encode whose first threshold is one too high.
CompactInteger_encode_OffByOne(value) ==
    IF value[1] <= 253 /\ ZeroFrom(value, 2) THEN <<value[1]>>
    ELSE IF ZeroFrom(value, 3)
    THEN <<253, ByteAt(value, 0), ByteAt(value, 1)>>
    ELSE IF ZeroFrom(value, 5)
    THEN <<254>> \o [i \in 1..4 |-> ByteAt(value, i - 1)]
    ELSE <<255>> \o [i \in 1..8 |-> ByteAt(value, i - 1)]

\* CompactInteger::encode
CompactInteger_encode(value) ==
    IF value[1] <= 252 /\ ZeroFrom(value, 2) THEN <<value[1]>>
    ELSE IF ZeroFrom(value, 3)
    THEN <<253, ByteAt(value, 0), ByteAt(value, 1)>>
    ELSE IF ZeroFrom(value, 5)
    THEN <<254>> \o [i \in 1..4 |-> ByteAt(value, i - 1)]
    ELSE <<255>> \o [i \in 1..8 |-> ByteAt(value, i - 1)]

Thrown == [ok |-> FALSE, value |-> << >>, n |-> 0]

Returned(value, n) == [ok |-> TRUE, value |-> value, n |-> n]

\* CompactInteger::decode(data, size): data[i] of the source is data[i + 1].
CompactInteger_decode(data, size) ==
    IF size < 1 THEN Thrown
    ELSE IF data[1] <= 252 THEN Returned(Widen(<<data[1]>>), 1)
    ELSE IF data[1] = 253
    THEN IF size < 3 THEN Thrown
         ELSE Returned(Widen(<<data[2], data[3]>>), 3)
    ELSE IF data[1] = 254
    THEN IF size < 5 THEN Thrown
         ELSE Returned(Widen([i \in 1..4 |-> data[i + 1]]), 5)
    ELSE IF size < 9 THEN Thrown
         ELSE Returned(Widen([i \in 1..8 |-> data[i + 1]]), 9)

\* EndianHelper::byteSwap: the bytes in reverse order.
byteSwap(v) == [i \in 1..Len(v) |-> v[Len(v) + 1 - i]]

\* EndianHelper::toLittleEndian and fromLittleEndian ("same operation").
toLittleEndian(v, host) == IF host = "little" THEN v ELSE byteSwap(v)

fromLittleEndian(v, host) == toLittleEndian(v, host)

\* The bytes of an object in the host's memory, lowest address first, and
\* the object that std::memcpy builds from such bytes.
InMemory(v, host) == IF host = "little" THEN v ELSE byteSwap(v)

\* appendToVector(result, val): the bytes of val as they lie in memory.
appendToVector(result, val, host) == result \o InMemory(val, host)

\* CompactSize::encode
CompactSize_encode(value, host) ==
    IF value[1] < 253 /\ ZeroFrom(value, 2) THEN <<value[1]>>
    ELSE IF ZeroFrom(value, 3)
    THEN appendToVector(<<253>>, toLittleEndian(Narrow(value, 2), host), host)
    ELSE IF ZeroFrom(value, 5)
    THEN appendToVector(<<254>>, toLittleEndian(Narrow(value, 4), host), host)
    ELSE appendToVector(<<255>>, toLittleEndian(value, host), host)

\* CompactSize::decode
CompactSize_decode(data, size, host) ==
    IF size < 1 THEN Thrown
    ELSE IF data[1] < 253 THEN Returned(Widen(<<data[1]>>), 1)
    ELSE IF data[1] = 253
    THEN IF size < 3 THEN Thrown
         ELSE Returned(Widen(fromLittleEndian(
                  InMemory(SubSeq(data, 2, 3), host), host)), 3)
    ELSE IF data[1] = 254
    THEN IF size < 5 THEN Thrown
         ELSE Returned(Widen(fromLittleEndian(
                  InMemory(SubSeq(data, 2, 5), host), host)), 5)
    ELSE IF size < 9 THEN Thrown
         ELSE Returned(Widen(fromLittleEndian(
                  InMemory(SubSeq(data, 2, 9), host), host)), 9)

CompactInit ==
    /\ cvalue \in U64s
    /\ cimpl \in {"CompactInteger", "CompactSize"}
    /\ chost \in {"little", "big"}
    /\ cenc = << >>
    /\ cdec = << >>

\* encode(cvalue)
Encode ==
    /\ cenc = << >>
    /\ cenc' = IF cimpl = "CompactInteger"
               THEN CompactInteger_encode(cvalue)
               ELSE CompactSize_encode(cvalue, chost)
    /\ UNCHANGED <<cvalue, cimpl, chost, cdec>>

\* decode(encoded.data(), encoded.size())
Decode ==
    /\ cenc # << >>
    /\ cdec = << >>
    /\ cdec' = <<IF cimpl = "CompactInteger"
                 THEN CompactInteger_decode(cenc, Len(cenc))
                 ELSE CompactSize_decode(cenc, Len(cenc), chost)>>
    /\ UNCHANGED <<cvalue, cimpl, chost, cenc>>

\* What the steps of the compact integers leave alone.
compactFrame == <<storeVars, walletVars, txVars, fundVars, bufVars>>

InitCompact ==
    /\ MempoolInit
    /\ ThreadInit
    /\ SharedInit
    /\ CacheInit(<< >>)
    /\ WalletIdle
    /\ TxIdle
    /\ FundIdle
    /\ CompactInit
    /\ BufIdle

NextCompact ==
    \/ Encode /\ UNCHANGED compactFrame
    \/ Decode /\ UNCHANGED compactFrame

SpecCompact == InitCompact /\ [][NextCompact]_vars

(* MessageBuffer and processMessages
   (src/005-network/projects/05_message_parser.md) *)

\* sizeof(Message::Header) in bytes of the model: one byte stands for magic
\* and one for length; command and checksum play no part in the buffer.
HeaderSize == 2

\* Message::Header::MAINNET_MAGIC, as the one byte that stands for magic.
MAINNET_MAGIC == 2

\* Longest payload of a message.
MaxPayload == 2

\* Number of items (messages or stray headers) the peer sends.
MaxItems == 2

\* Message::Header::serialize (declared, not defined): the header's bytes.
Header_serialize(magic, length) == <<magic, length>>

\* Message::Header::deserialize (declared, not defined): reads the header at
\* the front of data; false when data is shorter than a header or the magic
\* is not the network's.
Header_deserialize(data) ==
    IF Len(data) >= HeaderSize /\ data[1] = MAINNET_MAGIC
    THEN [ok |-> TRUE, length |-> data[2]]
    ELSE [ok |-> FALSE, length |-> 0]

\* The well-formed messages: a header and header.length payload bytes.
WellFormed ==
    UNION {{Header_serialize(MAINNET_MAGIC, n) \o body :
               body \in BytesOfLen(n)} : n \in 0..MaxPayload}

\* Header-sized runs of bytes that do not deserialize.
BadHeaders == {Header_serialize(0, 0)}

\* What the peer may send: up to MaxItems items.
Streams ==
    UNION {[1..n -> WellFormed \cup BadHeaders] : n \in 1..MaxItems}

\* The bytes of the items, in order.
RECURSIVE Flatten(_)
Flatten(items) ==
    IF items = << >> THEN << >> ELSE Head(items) \o Flatten(Tail(items))

\* MessageBuffer::addData: buffer_.insert(buffer_.end(), ...).
MessageBuffer_addData(buf, data) == buf \o data

\* The end of getNextMessage: the first total bytes are copied out and
\* erased from the front of buffer_.
MessageBuffer_extract(buf, total) ==
    [message |-> SubSeq(buf, 1, total),
     buffer_ |-> SubSeq(buf, total + 1, Len(buf))]

\* A MessageBuffer about to receive the items of s, with every
\* processMessages thread at the top of its loop.
BufInit(s) ==
    /\ buffer_ = << >>
    /\ stream = s
    /\ sent = 0
    /\ cpc = [t \in Consumers |-> "idle"]
    /\ ctotal = [t \in Consumers |-> 0]
    /\ cret = [t \in Consumers |-> << >>]
    /\ delivered = << >>

\* The network thread hands the next n bytes of the stream to addData.
AddData(n) ==
    /\ sent + n <= Len(Flatten(stream))
    /\ buffer_' = MessageBuffer_addData(
                      buffer_, SubSeq(Flatten(stream), sent + 1, sent + n))
    /\ sent' = sent + n
    /\ UNCHANGED <<stream, cpc, ctotal, cret, delivered>>

\* processMessages calls buffer.getNextMessage(): the thread takes mutex_
\* and enters the first cv_.wait.
GetNextMessage_call(t) ==
    /\ cpc[t] = "idle"
    /\ cpc' = [cpc EXCEPT ![t] = "waitHeader"]
    /\ UNCHANGED <<buffer_, stream, sent, ctotal, cret, delivered>>

\* Thread t returns message from getNextMessage, leaving rest in buffer_.
Extracted(t, r) ==
    /\ buffer_' = r.buffer_
    /\ cret' = [cret EXCEPT ![t] = r.message]
    /\ delivered' = Append(delivered, r.message)
    /\ cpc' = [cpc EXCEPT ![t] = "idle"]
    /\ ctotal' = [ctotal EXCEPT ![t] = 0]

\* The first wait is over (buffer_ holds a header's worth of bytes): the
\* header is parsed.  A header that does not deserialize makes the call
\* return {} with buffer_ as it is; otherwise totalSize is computed and the
\* message is extracted at once if it is complete, else the thread enters
\* the second cv_.wait, giving mutex_ up.
GetNextMessage_parse(t) ==
    /\ cpc[t] = "waitHeader"
    /\ Len(buffer_) >= HeaderSize
    /\ LET header == Header_deserialize(buffer_)
           totalSize == HeaderSize + header.length
       IN  IF ~header.ok
           THEN /\ cret' = [cret EXCEPT ![t] = << >>]
                /\ cpc' = [cpc EXCEPT ![t] = "idle"]
                /\ UNCHANGED <<buffer_, ctotal, delivered>>
           ELSE IF Len(buffer_) >= totalSize
           THEN Extracted(t, MessageBuffer_extract(buffer_, totalSize))
           ELSE /\ cpc' = [cpc EXCEPT ![t] = "waitBody"]
                /\ ctotal' = [ctotal EXCEPT ![t] = totalSize]
                /\ UNCHANGED <<buffer_, cret, delivered>>
    /\ UNCHANGED <<stream, sent>>

\* The second wait is over (buffer_.size() >= totalSize): the message is
\* extracted with the totalSize computed before the wait.
GetNextMessage_extract(t) ==
    /\ cpc[t] = "waitBody"
    /\ Len(buffer_) >= ctotal[t]
    /\ Extracted(t, MessageBuffer_extract(buffer_, ctotal[t]))
    /\ UNCHANGED <<stream, sent>>

bufFrame == <<storeVars, walletVars, txVars, fundVars, compactVars>>

InitBuffer ==
    /\ MempoolInit
    /\ ThreadInit
    /\ SharedInit
    /\ CacheInit(<< >>)
    /\ WalletIdle
    /\ TxIdle
    /\ FundIdle
    /\ CompactIdle
    /\ \E s \in Streams : BufInit(s)

NextBuffer ==
    \/ \E n \in 1..(MaxItems * (HeaderSize + MaxPayload)) :
           AddData(n) /\ UNCHANGED bufFrame
    \/ \E t \in Consumers : GetNextMessage_call(t) /\ UNCHANGED bufFrame
    \/ \E t \in Consumers : GetNextMessage_parse(t) /\ UNCHANGED bufFrame
    \/ \E t \in Consumers : GetNextMessage_extract(t) /\ UNCHANGED bufFrame

\* Every thread keeps running: the network thread hands over the bytes it
\* has, and a processMessages thread that can take a step takes it.
FairBuffer ==
    /\ WF_vars(\E n \in 1..(MaxItems * (HeaderSize + MaxPayload)) :
                   AddData(n) /\ UNCHANGED bufFrame)
    /\ \A t \in Consumers :
           WF_vars((GetNextMessage_call(t) \/ GetNextMessage_parse(t)
                       \/ GetNextMessage_extract(t))
                   /\ UNCHANGED bufFrame)

SpecBuffer == InitBuffer /\ [][NextBuffer]_vars /\ FairBuffer

----------------------------------------------------------------------------

----------------------------------------------------------------------------
(* Helpers of the properties *)

\* Sum of the sizes of the entries stored under the ids of S.
RECURSIVE SumOfSizes(_, _)
SumOfSizes(txs, S) ==
    IF S = {} THEN 0
    ELSE LET k == CHOOSE x \in S : TRUE
         IN  getSize(txs[k]) + SumOfSizes(txs, S \ {k})

\* Number of entries currently present.
EntriesPresent == Cardinality(DOMAIN transactions_)

\* Index in calls of the most recent call on id d, 0 when there is none.
LastCallOn(d) ==
    LET on == {i \in 1..Len(calls) : calls[i].txid = d}
    IN  IF on = {} THEN 0 ELSE CHOOSE i \in on : \A j \in on : j <= i

\* The call that the step from the unprimed to the primed state completed.
CallJustMade == calls'[Len(calls')]

IsCallStep == Len(calls') = Len(calls) + 1

----------------------------------------------------------------------------
(* C1 *)

\* C1: at every quiescent point getTotalSize() equals the sum of the sizes
\* of exactly the entries currently present, also after an insert that
\* reuses an id already present.
C1_TotalSizeIsSumOfPresent ==
    getTotalSize = SumOfSizes(transactions_, DOMAIN transactions_)

----------------------------------------------------------------------------
(* C2 *)

\* C2: an insert of an id that is already present fails (DuplicateKey) and
\* leaves the store unchanged: same stored entry, same keys, same totalSize.
C2_DuplicateInsertRejected ==
    [][(IsCallStep /\ CallJustMade.op = "add"
            /\ CallJustMade.txid \in DOMAIN transactions_)
        => (/\ CallJustMade.ok = FALSE
            /\ transactions_' = transactions_
            /\ totalSize_' = totalSize_)]_vars

----------------------------------------------------------------------------
(* C3 *)

\* C3: for every id d, hasTransaction(d) is true iff the most recent call on
\* d was a successful insert (no remove of d after it); a key is therefore
\* absent until inserted and absent again after its removal.
C3_ContainsIffLastCallInserted ==
    \A d \in Txids :
        hasTransaction(d) <=>
            /\ LastCallOn(d) # 0
            /\ calls[LastCallOn(d)].op = "add"
            /\ calls[LastCallOn(d)].ok

\* C3 witness: an id was inserted, handed out by a remove and inserted
\* again, and is present (on the way there, between the remove and the
\* second insert, it was absent).
C3_Witness ==
    \E d \in Txids :
        /\ hasTransaction(d)
        /\ \E i, j \in 1..Len(calls) :
              /\ i < j
              /\ calls[i].txid = d /\ calls[i].op = "add"
              /\ calls[j].txid = d /\ calls[j].op = "remove" /\ calls[j].ok
              /\ LastCallOn(d) > j

----------------------------------------------------------------------------
(* C4 *)

\* C4: getTransactionCount() returns exactly the number of entries
\* currently present in the store.
C4_CountIsEntriesPresent == getTransactionCount = EntriesPresent

----------------------------------------------------------------------------
(* C5 *)

\* Calls i < j are two removes of the same id with no insert of that id
\* between them.
RemovedTwice(i, j) ==
    /\ i < j
    /\ calls[i].op = "remove" /\ calls[j].op = "remove"
    /\ calls[i].txid = calls[j].txid
    /\ \A m \in (i + 1)..(j - 1) :
          ~(calls[m].op = "add" /\ calls[m].txid = calls[i].txid)

\* C5: of two removes of the same id with no insert of it in between, when
\* the first hands the entry to the caller the second returns nullptr: the
\* entry is never handed out twice.
C5_SecondRemoveReturnsAbsent ==
    \A i, j \in 1..Len(calls) :
        (RemovedTwice(i, j) /\ calls[i].out # nullptr)
            => calls[j].out = nullptr

\* C5 witness: a present id was removed twice in a row; the first call got
\* the entry, the second got nullptr.
C5_Witness ==
    \E i, j \in 1..Len(calls) :
        /\ RemovedTwice(i, j) /\ j = i + 1
        /\ calls[i].out # nullptr
        /\ calls[i].out[1].txid_ = calls[i].txid
        /\ calls[j].out = nullptr

----------------------------------------------------------------------------
(* C6 *)

\* C6: removeTransaction(d) for an id d that is not present returns nullptr
\* and leaves the store unchanged: same entries (hence the same number of
\* entries), same totalSize, same getTransactionCount().
C6_RemoveAbsentIsNoOp ==
    [][(IsCallStep /\ CallJustMade.op = "remove"
            /\ CallJustMade.txid \notin DOMAIN transactions_)
        => (/\ CallJustMade.out = nullptr
            /\ transactions_' = transactions_
            /\ totalSize_' = totalSize_
            /\ getTransactionCount' = getTransactionCount)]_vars

\* C6 witness: a remove of an id that was never inserted has returned
\* nullptr while the store holds another entry.
C6_Witness ==
    /\ calls # << >>
    /\ calls[Len(calls)].op = "remove"
    /\ calls[Len(calls)].out = nullptr
    /\ \A i \in 1..Len(calls) - 1 : calls[i].txid # calls[Len(calls)].txid
    /\ transactions_ # << >>
    /\ totalSize_ > 0

----------------------------------------------------------------------------
(* C7, C8, C10: a store with a capacity *)

\* Every call so far was an insert, and no id was inserted twice.
InsertsOfDistinctIds ==
    /\ \A i \in 1..Len(calls) : calls[i].op = "add"
    /\ \A i, j \in 1..Len(calls) : i # j => calls[i].txid # calls[j].txid

\* Total size of the inserts k, k+1, ..., the newest.
RECURSIVE SizeOfInsertsFrom(_)
SizeOfInsertsFrom(k) ==
    IF k > Len(calls) THEN 0 ELSE calls[k].size + SizeOfInsertsFrom(k + 1)

\* Oldest-first eviction down to Capacity keeps the longest run of newest
\* inserts that fits: the inserts from this index on.
OldestKept ==
    CHOOSE k \in 1..(Len(calls) + 1) :
        /\ SizeOfInsertsFrom(k) <= Capacity
        /\ \A m \in 1..(k - 1) : SizeOfInsertsFrom(m) > Capacity

\* C7: with capacity C and inserts none of which is larger than C alone,
\* totalSizeBytes() <= C after each insert.
C7_TotalSizeWithinCapacity ==
    (/\ InsertsOfDistinctIds
     /\ \A i \in 1..Len(calls) : calls[i].size <= Capacity)
        => getTotalSize <= Capacity

\* C8: under oldest-first eviction the store holds, after a run of inserts,
\* exactly the newest inserts that fit the capacity, every older one having
\* been evicted (sizes 1, 2, 2 with capacity 3 leave only the last entry, as
\* sizes 100, 200, 150 with capacity 300 leave only the size-150 entry).
C8_FifoKeepsNewestThatFit ==
    InsertsOfDistinctIds
        => /\ DOMAIN transactions_ =
                  {calls[i].txid : i \in OldestKept..Len(calls)}
           /\ getTotalSize = SizeOfInsertsFrom(OldestKept)

\* C10: an insert of an entry that alone is larger than the capacity reports
\* failure (CapacityExhausted) and stays applied: the entry is present and
\* counted in totalSize and in count().
C10_OversizedInsertReported ==
    (/\ calls # << >>
     /\ calls[Len(calls)].op = "add"
     /\ calls[Len(calls)].size > TinyCapacity)
        => /\ calls[Len(calls)].ok = FALSE
           /\ hasTransaction(calls[Len(calls)].txid)
           /\ getTotalSize >= calls[Len(calls)].size
           /\ getTransactionCount >= 1

----------------------------------------------------------------------------
(* C18 *)

\* C18: adding an empty payload through TransactionManager::addTransaction
\* reports failure (the entry cannot be constructed: InvalidPayload) and
\* leaves the store's entries and totalSize unchanged.
C18_EmptyPayloadRejected ==
    [][(IsCallStep /\ CallJustMade.op = "add" /\ CallJustMade.size = 0)
        => (/\ CallJustMade.ok = FALSE
            /\ transactions_' = transactions_
            /\ totalSize_' = totalSize_)]_vars

----------------------------------------------------------------------------
(* C11 *)

\* A coin no valid output can carry: a negative amount.
Malformed(coin) == coin.value_ < 0

HasMalformed(updates) ==
    \E i \in 1..Len(updates) :
        updates[i].coin # nullopt /\ Malformed(updates[i].coin[1])

\* The step on which batchUpdate returns.
BatchReturns == wpc = "locked" /\ wpc' = "unlocked"

\* C11: a batch holding an invalid operation, wherever it sits in the list,
\* is rejected as a whole: when the call returns, the cache is what it was
\* before the call.
C11_InvalidBatchAppliesNothing ==
    [][(BatchReturns /\ HasMalformed(batch)) => cache_' = before]_vars

----------------------------------------------------------------------------
(* C12 *)

\* C12: what UTXOCache::getCoin observes for an outpoint is what the cache
\* held for it before the batch in progress or what it holds after the whole
\* batch, never a state in which only some of the updates are applied.
C12_ReaderSeesWholeBatches ==
    robs # << >> => robs[1].out \in {robs[1].pre, robs[1].post}

\* The cache after the first n updates of the batch in progress.
PartWay(n) == AfterBatch(before, SubSeq(batch, 1, n))

\* C12 witness: a lookup ran concurrently with a batch whose part-way state
\* differs, for the outpoint looked up, from both the state before and the
\* state after the batch; the lookup observed the state after.
C12_Witness ==
    /\ robs # << >>
    /\ roverlap
    /\ wpc = "unlocked"
    /\ \E n \in 1..(Len(batch) - 1) :
          UTXOCache_getCoin(PartWay(n), rkey) \notin
              {UTXOCache_getCoin(before, rkey),
               UTXOCache_getCoin(PartWay(Len(batch)), rkey)}
    /\ robs[1].out = UTXOCache_getCoin(PartWay(Len(batch)), rkey)
    /\ robs[1].out # UTXOCache_getCoin(before, rkey)

----------------------------------------------------------------------------
(* C13 *)

\* Indices of the updates of the batch that name outpoint o.
UpdatesOf(o) == {i \in 1..Len(batch) : batch[i].outpoint = o}

LastUpdateOf(o) == CHOOSE i \in UpdatesOf(o) : \A j \in UpdatesOf(o) : j <= i

\* C13: when batchUpdate returns, every outpoint the batch names holds what
\* its last update says (the supplied coin for an upsert, also over a coin
\* already present; nothing for a remove, also of an absent outpoint) and
\* every other outpoint is as before: a remove of an absent outpoint changes
\* nothing and fails nothing.
C13_BatchRemovesAndReplaces ==
    [][BatchReturns =>
        \A o \in OutPoints :
            UTXOCache_getCoin(cache_', o) =
                IF UpdatesOf(o) = {} THEN UTXOCache_getCoin(before, o)
                ELSE batch[LastUpdateOf(o)].coin]_vars

\* C13 witness: the batch [remove d1, upsert e2] has returned, d1 was absent
\* and e2's outpoint held a different coin before; the cache now holds the
\* coin of the batch.
C13_Witness ==
    /\ wpc = "unlocked"
    /\ Len(batch) = 2
    /\ batch[1].coin = nullopt
    /\ batch[1].outpoint \notin DOMAIN before
    /\ batch[2].coin # nullopt
    /\ batch[2].outpoint # batch[1].outpoint
    /\ batch[2].outpoint \in DOMAIN before
    /\ before[batch[2].outpoint] # batch[2].coin[1]
    /\ UTXOCache_getCoin(cache_, batch[2].outpoint) = batch[2].coin
    /\ batch[1].outpoint \notin DOMAIN cache_

----------------------------------------------------------------------------
(* C19 *)

\* A step of the lookup thread (every one of its steps moves rpc; no step of
\* the batch thread does).
LookupStep == rpc' # rpc

\* What UTXOSet::getCoin(o) returns when run on the current state.
LookupResult(o) ==
    IF o \in DOMAIN cache_ THEN <<cache_[o]>> ELSE fetchFromDatabase(db, o)

\* The lookup returns on this step, and the latest lookup was of the same
\* outpoint with no batch step or database update since it began.
RepeatedLookupReturns ==
    /\ rpc = "return" /\ rpc' = "idle"
    /\ ~rdirty
    /\ lastSeen # << >>
    /\ lastSeen[1].outpoint = rkey

----------------------------------------------------------------------------
(* C15 *)

\* Every caller thread of the Mempool is outside any call.
AllReturned == \A t \in Threads : tpc[t] = "idle"

\* Calls i and j were in progress at the same time.
Overlapped(i, j) == calls[i].id \in calls[j].with

\* The completed calls are inserts of pairwise distinct ids, two of them made
\* by different threads at the same time.
ConcurrentDistinctInserts ==
    /\ AllReturned
    /\ \A i \in 1..Len(calls) : calls[i].op = "add"
    /\ \A i, j \in 1..Len(calls) : i # j => calls[i].txid # calls[j].txid
    /\ \E i, j \in 1..Len(calls) :
          calls[i].thread # calls[j].thread /\ Overlapped(i, j)

\* Sum of the sizes of the first k completed calls.
RECURSIVE SizeOfCalls(_)
SizeOfCalls(k) == IF k = 0 THEN 0 ELSE calls[k].size + SizeOfCalls(k - 1)

\* No update of totalSize_ is lost.
TotalSizeIsSumOfInserts == getTotalSize = SizeOfCalls(Len(calls))

\* count() is the number of inserted entries.
CountIsNumberOfInserts == getTransactionCount = Len(calls)

\* C15: once concurrent inserts of pairwise distinct ids have all returned,
\* every one of them has succeeded, count() is the number of inserted
\* entries and the total size is the exact sum of their sizes.
C15_ConcurrentInsertsAllCounted ==
    ConcurrentDistinctInserts =>
        /\ \A i \in 1..Len(calls) : calls[i].ok
        /\ \A i \in 1..Len(calls) : hasTransaction(calls[i].txid)
        /\ CountIsNumberOfInserts
        /\ TotalSizeIsSumOfInserts

----------------------------------------------------------------------------
(* C16 *)

\* Calls i < j are the same operation on the same id, made by two threads at
\* the same time, with no completed call on that id between them.
SameKeyRace(i, j) ==
    /\ i < j
    /\ calls[i].op = calls[j].op
    /\ calls[i].txid = calls[j].txid
    /\ calls[i].thread # calls[j].thread
    /\ Overlapped(i, j)
    /\ \A k \in (i + 1)..(j - 1) : calls[k].txid # calls[i].txid

\* The id of call i was absent, or present, when call i took effect.
AbsentBefore(i) ==
    \A k \in 1..(i - 1) :
        calls[k].txid = calls[i].txid =>
            \E m \in (k + 1)..(i - 1) :
                calls[m].txid = calls[i].txid /\ calls[m].op = "remove"

PresentBefore(i) ==
    \E k \in 1..(i - 1) :
        /\ calls[k].txid = calls[i].txid
        /\ calls[k].op = "add"
        /\ \A m \in (k + 1)..(i - 1) : calls[m].txid # calls[i].txid

\* C16: of two concurrent inserts of the same absent id exactly one
\* succeeds, of two concurrent removes of the same present id exactly one
\* receives the entry, and once the callers have returned the total size
\* counts every present entry exactly once.
C16_SameKeyWritersSerialized ==
    \A i, j \in 1..Len(calls) :
        SameKeyRace(i, j) =>
            /\ (calls[i].op = "add" /\ AbsentBefore(i)) =>
                  (calls[i].ok # calls[j].ok)
            /\ (calls[i].op = "remove" /\ PresentBefore(i)) =>
                  ((calls[i].out # nullptr) # (calls[j].out # nullptr))
            /\ AllReturned =>
                  getTotalSize = SumOfSizes(transactions_, DOMAIN transactions_)

----------------------------------------------------------------------------
(* C20 *)

\* C20: under fair scheduling every invoked operation of the cache returns:
\* a batchUpdate that waits for the mutex completes, and so does every
\* getCoin.
C20_EveryOperationReturns ==
    /\ (wpc = "waiting") ~> (wpc = "unlocked")
    /\ \A t \in Readers : (gpc[t] = "waiting") ~> (gpc[t] = "idle")

----------------------------------------------------------------------------
(* C21 *)

WalletErrors == {"invalid_argument", "runtime_error"}

\* C21: on a BasicWallet the balance is never negative after a call; a send
\* with amount <= 0 or amount > balance and a receive with amount <= 0 end
\* in an exception; and a call that ends in an exception leaves the balance
\* and the transaction history as they were.
C21_BasicWalletValidatesFirst ==
    [][wkind = "BasicWallet" =>
        /\ ~dLt(balance', Fin(0))
        /\ (/\ wcall'.op = "send"
            /\ dLe(wcall'.amount, Fin(0)) \/ dGt(wcall'.amount, balance))
              => wres' \in WalletErrors
        /\ (wcall'.op = "receive" /\ dLe(wcall'.amount, Fin(0)))
              => wres' \in WalletErrors
        /\ wres' \in WalletErrors =>
              /\ balance' = balance
              /\ transactionHistory' = transactionHistory]_vars

\* C21 witness: after receive(2) and send(1), send(2) has thrown
\* "Insufficient funds" and the balance is still 1 with two transactions
\* recorded.
C21_Witness ==
    /\ wkind = "BasicWallet"
    /\ wcall # << >> /\ wcall.op = "send" /\ wcall.amount = Fin(2)
    /\ wres = "runtime_error"
    /\ balance = Fin(1)
    /\ Len(transactionHistory) = 2

----------------------------------------------------------------------------
(* C22 *)

\* The authorized signers of the wallet.
Authorized == {signers[i] : i \in 1..Len(signers)}

\* C22: a MultiSigWallet::send returns true only if at least
\* requiredSignatures distinct authorized signers called addSignature since
\* the previous send that returned true, and it clears the pending
\* signatures; addSignature of an unauthorized name returns false and counts
\* nothing; the pending signatures are always exactly the distinct
\* authorized signers that signed since then.
C22_SendNeedsFreshSignatures ==
    [][wkind = "MultiSigWallet" =>
        /\ (wcall'.op = "send" /\ wres' = "true") =>
              /\ Cardinality(signedSince) >= requiredSignatures
              /\ pendingSignatures' = {}
        /\ (wcall'.op = "addSignature" /\ wcall'.name \notin Authorized) =>
              /\ wres' = "false"
              /\ pendingSignatures' = pendingSignatures
        /\ pendingSignatures' = signedSince']_vars

\* C22 witness: a wallet that needs two signatures has sent, after a receive
\* and the signatures of both signers, and the pending signatures are
\* cleared.
C22_Witness ==
    /\ wkind = "MultiSigWallet"
    /\ requiredSignatures = 2
    /\ wcall # << >> /\ wcall.op = "send"
    /\ wres = "true"
    /\ pendingSignatures = {}
    /\ Len(transactionHistory) = 2

----------------------------------------------------------------------------
(* C23 *)

\* The step is one iteration of processTransactions, on object ppc.
IsProcessOne == ppc \in 1..Len(txobjs) /\ ppc' = ppc + 1

\* The step is a direct execute() call on object i that ended otherwise
\* than the latest one.
IsExecute(i) ==
    /\ ppc = 0 /\ ppc' = 0
    /\ plog'[i].execute # plog[i].execute

\* C23: execute() completes only on an object whose verify()/validate() has
\* returned true before, and throws on an object never verified or whose
\* latest verification failed; an iteration of processTransactions executes
\* the object when its verification succeeds and skips it otherwise, and
\* when processTransactions has returned every object of the list has been
\* visited, those after a skipped one included.
C23_ExecuteOnlyAfterVerify ==
    [][/\ \A i \in 1..Len(txobjs) :
            /\ plog'[i].execute = "completed" => plog'[i].everTrue
            /\ IsExecute(i) =>
                  plog'[i].execute =
                      IF plog[i].verify = "true" THEN "completed" ELSE "threw"
       /\ IsProcessOne =>
            /\ plog'[ppc].verify = "true" => plog'[ppc].execute = "completed"
            /\ plog'[ppc].verify = "false" =>
                  plog'[ppc].execute = plog[ppc].execute
       /\ (pruns' >= 1 /\ ppc' = 0) =>
            \A i \in 1..Len(txobjs) : plog'[i].visits = pruns']_vars

\* C23 witness: processTransactions has returned; the first object failed
\* verification and was never executed, the second one after it was verified
\* and executed.
C23_Witness ==
    /\ pruns = 1 /\ ppc = 0
    /\ Len(txobjs) = 2
    /\ plog[1].verify = "false" /\ plog[1].execute = "none"
    /\ plog[1].visits = 1
    /\ plog[2].verify = "true" /\ plog[2].execute = "completed"
    /\ plog[2].visits = 1

----------------------------------------------------------------------------
(* C24 *)

\* The account the call of this step takes from and the one it gives to,
\* before and after the step.
SrcBefore == IF fcall'.forward THEN fromBalance ELSE toBalance

DstBefore == IF fcall'.forward THEN toBalance ELSE fromBalance

SrcAfter == IF fcall'.forward THEN fromBalance' ELSE toBalance'

DstAfter == IF fcall'.forward THEN toBalance' ELSE fromBalance'

\* C24: a transferFunds call with amount <= 0 or amount > from throws and
\* changes neither balance; any other call returns, takes exactly amount
\* from from and adds it to to, so that from + to is unchanged, and leaves
\* from >= 0.
C24_TransferConservesFunds ==
    [][IF dLe(fcall'.amount, Fin(0)) \/ dGt(fcall'.amount, SrcBefore)
       THEN /\ fres' \in WalletErrors
            /\ SrcAfter = SrcBefore
            /\ DstAfter = DstBefore
       ELSE /\ fres' = "void"
            /\ SrcAfter = dSub(SrcBefore, fcall'.amount)
            /\ DstAfter = dAdd(DstBefore, fcall'.amount)
            /\ dAdd(SrcAfter, DstAfter) = dAdd(SrcBefore, DstBefore)
            /\ dLe(Fin(0), SrcAfter)]_vars

----------------------------------------------------------------------------
(* C25 *)

\* The length the claim gives for the encoding of v.
ExpectedLength(v) ==
    IF v[1] <= 252 /\ ZeroFrom(v, 2) THEN 1
    ELSE IF ZeroFrom(v, 3) THEN 3
    ELSE IF ZeroFrom(v, 5) THEN 5
    ELSE 9

\* C25: decode(encode(v)) returns v together with the length of encode(v),
\* which is 1, 3, 5 or 9 for v <= 0xFC, v <= 0xFFFF, v <= 0xFFFFFFFF and
\* larger v.
C25_CompactRoundTrip ==
    /\ cenc # << >> => Len(cenc) = ExpectedLength(cvalue)
    /\ cdec # << >> => cdec[1] = Returned(cvalue, Len(cenc))

\* C25 witness: 0x10000, the smallest value that needs five bytes, has gone
\* through CompactSize on a big-endian host and come back.
C25_Witness ==
    /\ cvalue = <<0, 0, 1, 0, 0, 0, 0, 0>>
    /\ cimpl = "CompactSize" /\ chost = "big"
    /\ cenc = <<254, 0, 0, 1, 0>>
    /\ cdec # << >> /\ cdec[1].ok /\ cdec[1].n = 5


----------------------------------------------------------------------------
(* C28 *)

\* The payload whose digest is txid (calculateTxid is collision-free).
PayloadOf(txid) == CHOOSE data \in Payloads : calculateTxid(data) = txid

\* The store after one recorded call made on the store s.
ApplyCall(s, c) ==
    IF c.op = "add"
    THEN Mempool_addTransaction(s.transactions_, s.totalSize_,
                                Transaction(PayloadOf(c.txid)))
    ELSE LET r == Mempool_removeTransaction(s.transactions_, s.totalSize_,
                                            c.txid)
         IN  [transactions_ |-> r.transactions_, totalSize_ |-> r.totalSize_]

\* The store after the recorded calls cs, made on an empty Mempool.
RECURSIVE Replay(_)
Replay(cs) ==
    IF cs = << >> THEN [transactions_ |-> << >>, totalSize_ |-> 0]
    ELSE ApplyCall(Replay(SubSeq(cs, 1, Len(cs) - 1)), cs[Len(cs)])

\* The last two calls were made on different ids.
LastTwoDisjoint ==
    /\ Len(calls) >= 2
    /\ calls[Len(calls) - 1].txid # calls[Len(calls)].txid

\* The store had the last two calls been made in the other order.
LastTwoSwapped ==
    LET n == Len(calls)
    IN  ApplyCall(ApplyCall(Replay(SubSeq(calls, 1, n - 2)), calls[n]),
                  calls[n - 1])

----------------------------------------------------------------------------
(* C27 *)

\* The lookup in progress began after the applyBlock calls that spent its
\* outpoint had returned: no batch step and no database update has run
\* since UTXOSet::getCoin was called.
LookupAfterSpend == rpc # "idle" /\ rkey \in spentBy /\ ~rdirty

\* C27: once UTXOSet::applyBlock(B) has returned, a UTXOSet::getCoin(o)
\* called afterwards returns no coin for an outpoint o that B spent and did
\* not create again, whatever lookups ran concurrently with applyBlock.
C27_SpentCoinStaysGone ==
    (rpc = "return" /\ LookupAfterSpend) => rout = nullopt


----------------------------------------------------------------------------
(* C29 *)

\* m is one header followed by exactly header.length payload bytes.
WholeMessage(m) ==
    /\ Header_deserialize(m).ok
    /\ Len(m) = HeaderSize + Header_deserialize(m).length

\* C29: every non-empty result of getNextMessage is one whole message, the
\* results are the items of the stream in arrival order, and the bytes
\* handed to addData are exactly the bytes delivered followed by the bytes
\* still in buffer_, however addData split them and with several threads
\* in getNextMessage.
C29_WholeMessagesInOrder ==
    /\ \A i \in DOMAIN delivered :
           /\ WholeMessage(delivered[i])
           /\ i \in DOMAIN stream
           /\ delivered[i] = stream[i]
    /\ Flatten(delivered) \o buffer_ = SubSeq(Flatten(stream), 1, sent)

----------------------------------------------------------------------------
(* C30 *)

\* The bytes at the front of buffer_ fail to deserialize as a header.
MalformedFront ==
    Len(buffer_) >= HeaderSize /\ ~Header_deserialize(buffer_).ok

\* Offset in the stream of the first byte of item i.
StartOf(i) == Len(Flatten(SubSeq(stream, 1, i - 1)))

\* Item i is a well-formed message that was appended after the bytes now at
\* the front of buffer_, and all of it is in buffer_.
AppendedBehindFront(i) ==
    /\ i \in DOMAIN stream
    /\ stream[i] \in WellFormed
    /\ sent - Len(buffer_) + HeaderSize <= StartOf(i)
    /\ StartOf(i) + Len(stream[i]) <= sent

\* A getNextMessage call has returned item i.
IsDelivered(i) ==
    /\ i \in DOMAIN stream
    /\ \E k \in DOMAIN delivered : delivered[k] = stream[i]

\* Thread t's getNextMessage finds a malformed header and returns.
ReturnsOnMalformed(t) ==
    cpc[t] = "waitHeader" /\ MalformedFront /\ cpc'[t] = "idle"

\* C30: a getNextMessage call that finds a malformed header at the front
\* returns an empty result, and every well-formed message appended behind a
\* malformed front is eventually returned by a later getNextMessage call.
C30_MalformedHeaderDoesNotStall ==
    /\ [][\A t \in Consumers : ReturnsOnMalformed(t) => cret'[t] = << >>]_vars
    /\ \A i \in 1..MaxItems :
           (MalformedFront /\ AppendedBehindFront(i)) ~> IsDelivered(i)

====
